---- MODULE Spec2Model ----
(***************************************************************************)
(* Model of the disk-backed B+-tree of src/engine: the pager (page.rs),    *)
(* the node codec and node algorithms (btnode.rs) and the tree engine      *)
(* (bptree.rs).  The file is a sequence of pages; every operation loads    *)
(* nodes from the file and stores them back, as the code does.             *)
(* Vectors are TLA+ sequences addressed with the source's 0-based indices. *)
(***************************************************************************)
EXTENDS Integers, Sequences, FiniteSets, TLC

(* ---------------- bounds of the model ---------------- *)
\* keys of the free workload (Spec, SpecSet) are 1..MaxKey
MaxKey == 3
\* its values are 1..MaxValue
MaxValue == 2
\* page_count never exceeds MaxPages there (next_page_ptr only counts up, so
\* the counter is capped in the guard of set)
MaxPages == 5
\* override_max_key_count ranges over 2..MaxFanout
MaxFanout == 3
\* the planned workload (SpecTest) sets the keys 1..TestKeys, in one of the
\* orders of Plans, and page_count never exceeds TestPages there
TestKeys == 6
TestPages == 8
\* the pager on its own (SpecPager) works on files of at most MaxFileLen pages
MaxFileLen == 3
\* the capacity check (SpecCapacity) takes key and value sizes in 1..MaxSize
MaxSize == 32
\* the long workload (SpecLong) sets the keys 1..LongKeys in ascending order
\* with max_key_count OddFanout and at most LongPages pages, then removes at
\* most MaxRemoves keys
LongKeys == 12
LongPages == 9
OddFanout == 3
MaxRemoves == 2

Values == 1..MaxValue

(* ---------------- program constants ---------------- *)
LEAF_NODE_TYPE == 0
INNER_NODE_TYPE == 1
PAGE_SIZE == 4096
PAGE_PTR_LEN == 8
KEYS_LEN == 8
VALUES_LEN == 8
HAS_NEXT_OFFSET == PAGE_PTR_LEN + 1
NEXT_PAGE_PTR_OFFSET == HAS_NEXT_OFFSET + 1
KEYS_LEN_OFFSET == NEXT_PAGE_PTR_OFFSET + PAGE_PTR_LEN
VALUES_LEN_OFFSET == KEYS_LEN_OFFSET + KEYS_LEN
\* mem::size_of::<u128>(), the key and value type of test_node
SizeOfU128 == 16

(* Option<T>: None is the empty sequence, Some(x) the one-element one. *)
None == << >>
Some(x) == << x >>
IsSome(o) == Len(o) = 1
IsNone(o) == Len(o) = 0
Unwrap(o) == o[1]

VARIABLES
    file,            \* Pager.fd: the sequence of pages, page p at file[p+1]
    root_ptr,        \* BPTree.root_ptr : Option<PagePtr>
    page_count,      \* BPTree.page_count
    emtpy_pages,     \* BPTree.emtpy_pages (the free list)
    max_key_count,   \* BPTree.max_key_count
    key_size,        \* BPTree.key_size
    value_size,      \* BPTree.value_size
    array_inner,     \* ArrayKVStore.inner : Vec<KVPair<K, V>>
    ret,             \* the last call of the public API and what it returned
    written,         \* reference map: the last completed set/remove per key
    plan             \* the keys the test driver's loop has still to set

vars == << file, root_ptr, page_count, emtpy_pages, max_key_count, key_size,
          value_size, array_inner, ret, written, plan >>

\* what BPTree::new fixes for the life of the tree
config == << max_key_count, key_size, value_size >>

(* ---------------- page.rs ---------------- *)
\* max_key_count(size_key, size_value); the subtraction stays above zero for
\* the sizes taken here
max_key_count_of(size_key, size_value) ==
    (PAGE_SIZE - size_value - 34) \div (size_key + size_value)

split_at(m) == (m \div 2) + (m % 2)

SplitAt == split_at(max_key_count)

(* ---------------- Vec helpers (0-based, as in the source) ---------------- *)
At(s, i) == s[i + 1]
VecInsert(s, i, x) == SubSeq(s, 1, i) \o << x >> \o SubSeq(s, i + 1, Len(s))
VecRemove(s, i) == SubSeq(s, 1, i) \o SubSeq(s, i + 2, Len(s))
VecSet(s, i, x) == [s EXCEPT ![i + 1] = x]
\* s[from..]
SliceFrom(s, from) == SubSeq(s, from + 1, Len(s))
\* s after s.drain(from..)
DrainFrom(s, from) == SubSeq(s, 1, from)
Elems(s) == { s[j] : j \in 1..Len(s) }

(* slice::binary_search: the halving loop of the standard library, computed *)
(* as it runs, so that a search of an unsorted vector (the child pointers   *)
(* of remove_page) gives what the loop gives.                               *)
RECURSIVE BinarySearchLoop(_, _, _, _)
BinarySearchLoop(s, x, left, right) ==
    IF left >= right THEN [found |-> FALSE, i |-> left]
    ELSE LET mid == left + ((right - left) \div 2)
         IN  IF At(s, mid) < x THEN BinarySearchLoop(s, x, mid + 1, right)
             ELSE IF At(s, mid) > x THEN BinarySearchLoop(s, x, left, mid)
             ELSE [found |-> TRUE, i |-> mid]

BinarySearch(s, x) == BinarySearchLoop(s, x, 0, Len(s))

(* ---------------- the tree handle threaded through an operation -------- *)
\* b = [file, root_ptr, page_count, emtpy_pages]
Tree == [file |-> file, root_ptr |-> root_ptr, page_count |-> page_count,
         emtpy_pages |-> emtpy_pages]

(* Pager::load_page: PageNotFound when the file is shorter than the offset, *)
(* an I/O error (read_exact at end of file) when it ends at the offset.     *)
load_page(f, page_ptr) ==
    IF Len(f) < page_ptr THEN [st |-> "PageNotFound"]
    ELSE IF Len(f) = page_ptr THEN [st |-> "IOError"]
    ELSE [st |-> "Ok", page |-> f[page_ptr + 1]]

(* Pager::insert_page: writes the slot at page_ptr; a slot right at the end *)
(* of the file is written too (file_len < offset is false there).           *)
insert_page(f, page_ptr, page) ==
    IF Len(f) < page_ptr THEN [st |-> "PageNotFound", file |-> f]
    ELSE IF Len(f) = page_ptr THEN [st |-> "Ok", file |-> Append(f, page)]
    ELSE [st |-> "Ok", file |-> [f EXCEPT ![page_ptr + 1] = page]]

(* Pager::append_page *)
append_page(f, page) == Append(f, page)

(* ---------------- node codec ---------------- *)
\* LeafNode::store_node_to_page, the encoding part
LeafPage(leaf) ==
    [ptr |-> leaf.ptr, ntype |-> LEAF_NODE_TYPE,
     has_next |-> IF IsSome(leaf.next) THEN 1 ELSE 0,
     next |-> IF IsSome(leaf.next) THEN Unwrap(leaf.next) ELSE 0,
     keys |-> leaf.keys, entries |-> leaf.values]

\* InnerNode::store_node_to_page, the encoding part
InnerPage(inner) ==
    [ptr |-> inner.ptr, ntype |-> INNER_NODE_TYPE, has_next |-> 0, next |-> 0,
     keys |-> inner.keys, entries |-> inner.childptrs]

\* store_node_to_page: insert_page, and append_page on PageNotFound
StoreResult(r, f, page) == IF r.st = "Ok" THEN r.file ELSE append_page(f, page)
StorePage(f, ptr, page) == StoreResult(insert_page(f, ptr, page), f, page)

LeafStore(leaf, b) == [b EXCEPT !.file = StorePage(b.file, leaf.ptr, LeafPage(leaf))]
InnerStore(inner, b) == [b EXCEPT !.file = StorePage(b.file, inner.ptr, InnerPage(inner))]

\* LeafNode::load_node_from_page
LeafFromPage(page) ==
    [ptr |-> page.ptr, keys |-> page.keys, values |-> page.entries,
     next |-> IF page.has_next = 0 THEN None ELSE Some(page.next)]

\* InnerNode::load_node_from_page
InnerFromPage(page) ==
    [ptr |-> page.ptr, keys |-> page.keys, childptrs |-> page.entries]

\* Node::load_node, the match on the node type byte of the page read
NodeFromPage(r) ==
    IF r.st # "Ok" THEN [st |-> r.st]
    ELSE IF r.page.ntype = LEAF_NODE_TYPE
         THEN [st |-> "Ok", leaf |-> TRUE, node |-> LeafFromPage(r.page)]
    ELSE IF r.page.ntype = INNER_NODE_TYPE
         THEN [st |-> "Ok", leaf |-> FALSE, node |-> InnerFromPage(r.page)]
    ELSE [st |-> "UnkonwNodeType"]

\* Node::load_node
load_node(page_ptr, f) == NodeFromPage(load_page(f, page_ptr))

(* ---------------- lookup ---------------- *)
\* LeafNode::get
LeafGetAt(leaf, s) == IF s.found THEN Some(At(leaf.values, s.i)) ELSE None
LeafGet(leaf, key) == LeafGetAt(leaf, BinarySearch(leaf.keys, key))

\* InnerNode::get
InnerGetAt(inner, s) ==
    IF s.found THEN At(inner.childptrs, s.i + 1) ELSE At(inner.childptrs, s.i)
InnerGet(inner, key) == InnerGetAt(inner, BinarySearch(inner.keys, key))

\* Node::get: the descent loop, at the loaded node n
RECURSIVE NodeGet(_, _, _)
NodeGetAt(n, key, f) ==
    IF n.st # "Ok" THEN [st |-> n.st]
    ELSE IF n.leaf THEN [st |-> "Ok", value |-> LeafGet(n.node, key)]
    ELSE NodeGet(InnerGet(n.node, key), key, f)

NodeGet(page_ptr, key, f) == NodeGetAt(load_node(page_ptr, f), key, f)

\* BPTree::get, the match on what the descent returned
BPTreeGetAfter(r) ==
    IF r.st # "Ok" THEN [st |-> r.st]
    ELSE IF IsSome(r.value) THEN [st |-> "Ok", value |-> Unwrap(r.value)]
    ELSE [st |-> "KeyNotFound"]

\* BPTree::get
BPTreeGet(b, key) ==
    IF IsNone(b.root_ptr) THEN [st |-> "RootPageIsNull"]
    ELSE BPTreeGetAfter(NodeGet(Unwrap(b.root_ptr), key, b.file))

(* ---------------- bptree.rs: helpers the nodes call ---------------- *)
\* BPTree::next_page_ptr without `self.page_count += 1`
next_page_ptr_noAdvance(b) == [ptr |-> b.page_count, b |-> b]

\* BPTree::next_page_ptr taking the last freed page when there is one
next_page_ptr_reuse(b) ==
    IF Len(b.emtpy_pages) > 0
    THEN [ptr |-> b.emtpy_pages[Len(b.emtpy_pages)],
          b |-> [b EXCEPT !.emtpy_pages =
                     SubSeq(b.emtpy_pages, 1, Len(b.emtpy_pages) - 1)]]
    ELSE [ptr |-> b.page_count, b |-> [b EXCEPT !.page_count = b.page_count + 1]]

\* BPTree::next_page_ptr
next_page_ptr(b) ==
    [ptr |-> b.page_count, b |-> [b EXCEPT !.page_count = b.page_count + 1]]

\* BPTree::delete_page
delete_page(b, ptr) == [b EXCEPT !.emtpy_pages = Append(b.emtpy_pages, ptr)]

\* BPTree::set_root
set_root(b, new_root_ptr) == [b EXCEPT !.root_ptr = new_root_ptr]

(* ---------------- insertion ---------------- *)
\* LeafNode::is_full, InnerNode::is_full
is_full(node) == Len(node.keys) >= max_key_count

\* what set returns: Option<(K, PagePtr)>, with the tree handle
SetErr(st, b) == [st |-> st, b |-> b, ret |-> None]
SetOk(b, split) == [st |-> "Ok", b |-> b, ret |-> split]

\* LeafNode::insert
LeafInsert(leaf, i, key, value) ==
    [leaf EXCEPT !.keys = VecInsert(leaf.keys, i, key),
                 !.values = VecInsert(leaf.values, i, value)]

\* LeafNode::split without `self.next = Some(next_ptr)`
LeafSplit_noLink(leaf, next_ptr, sa) ==
    [split_key |-> At(leaf.keys, sa),
     node |-> [ptr |-> next_ptr, keys |-> SliceFrom(leaf.keys, sa),
               values |-> SliceFrom(leaf.values, sa), next |-> leaf.next],
     self |-> [leaf EXCEPT !.keys = DrainFrom(leaf.keys, sa),
                           !.values = DrainFrom(leaf.values, sa)]]

\* LeafNode::split
LeafSplit(leaf, next_ptr, sa) ==
    [split_key |-> At(leaf.keys, sa),
     node |-> [ptr |-> next_ptr, keys |-> SliceFrom(leaf.keys, sa),
               values |-> SliceFrom(leaf.values, sa), next |-> leaf.next],
     self |-> [leaf EXCEPT !.next = Some(next_ptr),
                           !.keys = DrainFrom(leaf.keys, sa),
                           !.values = DrainFrom(leaf.values, sa)]]

\* LeafNode::set, the full arm after the split sp: the new item goes left
\* when i < split_at, else right at i - split_at; both halves are stored and
\* the split key taken before the insertion is returned.
LeafSetPlace(sp, i, key, value, b) ==
    IF i < SplitAt
    THEN SetOk(LeafStore(sp.node, LeafStore(LeafInsert(sp.self, i, key, value), b)),
               Some(<< sp.split_key, sp.node.ptr >>))
    ELSE SetOk(LeafStore(LeafInsert(sp.node, i - SplitAt, key, value), LeafStore(sp.self, b)),
               Some(<< sp.split_key, sp.node.ptr >>))

\* LeafNode::set after binary_search gave s.  An existing key is overwritten
\* in the loaded node only: that arm returns without store_node_to_page.
LeafSetAt(leaf, s, key, value, b) ==
    IF s.found THEN SetOk(b, None)
    ELSE IF is_full(leaf)
    THEN LeafSetPlace(LeafSplit(leaf, next_page_ptr(b).ptr, SplitAt),
                      s.i, key, value, next_page_ptr(b).b)
    ELSE SetOk(LeafStore(LeafInsert(leaf, s.i, key, value), b), None)

\* LeafNode::set
LeafSet(leaf, key, value, b) ==
    LeafSetAt(leaf, BinarySearch(leaf.keys, key), key, value, b)

\* InnerNode::insert
InnerInsert(inner, i, key, value) ==
    [inner EXCEPT !.keys = VecInsert(inner.keys, i, key),
                  !.childptrs = VecInsert(inner.childptrs, i + 1, value)]

\* InnerNode::split handing childptrs[split_at..] to the new node
InnerSplit_extraChild(inner, next_ptr, sa) ==
    [split_key |-> At(inner.keys, sa),
     node |-> [ptr |-> next_ptr, keys |-> SliceFrom(inner.keys, sa + 1),
               childptrs |-> SliceFrom(inner.childptrs, sa)],
     self |-> [inner EXCEPT !.keys = DrainFrom(inner.keys, sa),
                            !.childptrs = DrainFrom(inner.childptrs, sa + 1)]]

\* InnerNode::split
InnerSplit(inner, next_ptr, sa) ==
    [split_key |-> At(inner.keys, sa),
     node |-> [ptr |-> next_ptr, keys |-> SliceFrom(inner.keys, sa + 1),
               childptrs |-> SliceFrom(inner.childptrs, sa + 1)],
     self |-> [inner EXCEPT !.keys = DrainFrom(inner.keys, sa),
                            !.childptrs = DrainFrom(inner.childptrs, sa + 1)]]

\* InnerNode::set, the full arm after the split sp: the pair goes left when
\* i < split_at, else right at i - split_at - 1, a usize: below zero it
\* panics, after next_page_ptr and before any store.
InnerSetPlace(sp, i, split_key, split_page_ptr, b) ==
    IF i < SplitAt
    THEN SetOk(InnerStore(sp.node,
                 InnerStore(InnerInsert(sp.self, i, split_key, split_page_ptr), b)),
               Some(<< sp.split_key, sp.node.ptr >>))
    ELSE IF i - SplitAt - 1 < 0 THEN SetErr("panic", b)
    ELSE SetOk(InnerStore(InnerInsert(sp.node, i - SplitAt - 1, split_key, split_page_ptr),
                 InnerStore(sp.self, b)),
               Some(<< sp.split_key, sp.node.ptr >>))

\* InnerNode::set with a full node handing the child's pair on to its own
\* parent instead of splitting
InnerAbsorbAt_passUp(inner, s, split_key, split_page_ptr, b) ==
    IF s.found THEN SetErr("panic", b)
    ELSE IF is_full(inner)
    THEN SetOk(b, Some(<< split_key, split_page_ptr >>))
    ELSE SetOk(InnerStore(InnerInsert(inner, s.i, split_key, split_page_ptr), b), None)

\* InnerNode::set, absorbing the (split_key, split_page_ptr) of a child after
\* binary_search gave s
InnerAbsorbAt(inner, s, split_key, split_page_ptr, b) ==
    IF s.found THEN SetErr("panic", b)
    ELSE IF is_full(inner)
    THEN InnerSetPlace(InnerSplit(inner, next_page_ptr(b).ptr, SplitAt),
                       s.i, split_key, split_page_ptr, next_page_ptr(b).b)
    ELSE SetOk(InnerStore(InnerInsert(inner, s.i, split_key, split_page_ptr), b), None)

\* InnerNode::set, the match on what the child returned
InnerSetAfter(inner, r) ==
    IF r.st # "Ok" \/ IsNone(r.ret) THEN r
    ELSE InnerAbsorbAt(inner, BinarySearch(inner.keys, Unwrap(r.ret)[1]),
                       Unwrap(r.ret)[1], Unwrap(r.ret)[2], r.b)

\* InnerNode::set and Node::set
RECURSIVE InnerSet(_, _, _, _)
NodeSet(n, key, value, b) ==
    IF n.leaf THEN LeafSet(n.node, key, value, b)
    ELSE InnerSet(n.node, key, value, b)

\* InnerNode::set once the child n is loaded
InnerSetChild(inner, n, key, value, b) ==
    IF n.st # "Ok" THEN SetErr(n.st, b)
    ELSE InnerSetAfter(inner, NodeSet(n, key, value, b))

InnerSet(inner, key, value, b) ==
    InnerSetChild(inner, load_node(InnerGet(inner, key), b.file), key, value, b)

\* BPTree::create_root_node
create_root_node(b) ==
    [b |-> set_root(next_page_ptr(b).b, Some(next_page_ptr(b).ptr)),
     node |-> [ptr |-> next_page_ptr(b).ptr, keys |-> << >>, values |-> << >>,
               next |-> None]]

\* BPTree::create_new_root calling next_page_ptr twice, so that the new root
\* gets an index one past the end of the file
create_new_root_skipIndex(b, key, new_page_ptr) ==
    InnerStore([ptr |-> next_page_ptr(next_page_ptr(b).b).ptr, keys |-> << key >>,
                childptrs |-> << Unwrap(b.root_ptr), new_page_ptr >>],
               set_root(next_page_ptr(next_page_ptr(b).b).b,
                        Some(next_page_ptr(next_page_ptr(b).b).ptr)))

\* BPTree::create_new_root
create_new_root(b, key, new_page_ptr) ==
    InnerStore([ptr |-> next_page_ptr(b).ptr, keys |-> << key >>,
                childptrs |-> << Unwrap(b.root_ptr), new_page_ptr >>],
               set_root(next_page_ptr(b).b, Some(next_page_ptr(b).ptr)))

\* BPTree::set, after root_node.set returned r
BPTreeSetAfter(r) ==
    IF r.st # "Ok" THEN [st |-> r.st, b |-> r.b]
    ELSE IF IsSome(r.ret)
    THEN [st |-> "Ok", b |-> create_new_root(r.b, Unwrap(r.ret)[1], Unwrap(r.ret)[2])]
    ELSE [st |-> "Ok", b |-> r.b]

\* BPTree::set with the root node n loaded
BPTreeSetLoaded(n, key, value, b) ==
    IF n.st # "Ok" THEN [st |-> n.st, b |-> b]
    ELSE BPTreeSetAfter(NodeSet(n, key, value, b))

\* BPTree::set with the root leaf cr just created
BPTreeSetNew(cr, key, value) == BPTreeSetAfter(LeafSet(cr.node, key, value, cr.b))

\* BPTree::set
BPTreeSet(b, key, value) ==
    IF IsNone(b.root_ptr) THEN BPTreeSetNew(create_root_node(b), key, value)
    ELSE BPTreeSetLoaded(load_node(Unwrap(b.root_ptr), b.file), key, value, b)

(* ---------------- deletion ---------------- *)
\* InnerNode::get_child_node_info after binary_search gave s.  The lengths
\* are usize: len - 1 and len - 2 below zero panic, and so does an index
\* past the end.
ChildNodeInfoAt(inner, s) ==
    IF s.found
    THEN IF Len(inner.childptrs) < 2 \/ s.i + 1 >= Len(inner.childptrs)
         THEN [st |-> "panic"]
         ELSE [st |-> "Ok",
               page_nr |-> At(inner.childptrs, s.i + 1),
               lparent |-> IF s.i < Len(inner.keys) - 1 THEN Some(s.i + 1) ELSE None,
               rparent |-> Some(s.i),
               lsibling |-> Some(At(inner.childptrs, s.i)),
               rsibling |-> IF s.i < Len(inner.childptrs) - 2
                            THEN Some(At(inner.childptrs, s.i + 2)) ELSE None]
    ELSE IF Len(inner.childptrs) < 1 \/ s.i >= Len(inner.childptrs)
         THEN [st |-> "panic"]
         ELSE [st |-> "Ok",
               page_nr |-> At(inner.childptrs, s.i),
               lparent |-> Some(s.i),
               rparent |-> IF s.i > 0 THEN Some(s.i - 1) ELSE None,
               lsibling |-> IF s.i > 0 THEN Some(At(inner.childptrs, s.i - 1)) ELSE None,
               rsibling |-> IF s.i < Len(inner.childptrs) - 1
                            THEN Some(At(inner.childptrs, s.i + 1)) ELSE None]

\* InnerNode::get_child_node_info
get_child_node_info(inner, key) == ChildNodeInfoAt(inner, BinarySearch(inner.keys, key))

\* what remove returns: (Option<V>, Option<PagePtr>), the tree handle and
\* the parent node the callee holds by &mut
RemoveErr(st, b, parent) ==
    [st |-> st, b |-> b, parent |-> parent, value |-> None, deleted |-> None]
RemoveOk(b, parent, value, deleted) ==
    [st |-> "Ok", b |-> b, parent |-> parent, value |-> value, deleted |-> deleted]

\* parent.keys[idx.unwrap()] = k
SetParentKey(parent, idx, k) ==
    IF IsNone(idx) \/ Unwrap(idx) >= Len(parent.keys) THEN [st |-> "panic"]
    ELSE [st |-> "Ok", parent |-> [parent EXCEPT !.keys = VecSet(parent.keys, Unwrap(idx), k)]]

\* parent.keys[idx.unwrap()].clone()
GetParentKey(parent, idx) ==
    IF IsNone(idx) \/ Unwrap(idx) >= Len(parent.keys) THEN [st |-> "panic"]
    ELSE [st |-> "Ok", key |-> At(parent.keys, Unwrap(idx))]

\* load_page of a sibling that exists
LoadSibling(f, sibling) ==
    IF IsSome(sibling) THEN load_page(f, Unwrap(sibling)) ELSE [st |-> "Ok"]

\* a leaf or inner node without its last entry, without its first entry
PopLast(keys) == DrainFrom(keys, Len(keys) - 1)
Last(keys) == At(keys, Len(keys) - 1)

\* LeafNode::remove, borrow from the left sibling node: its last pair is
\* prepended to self and the parent key at rparent becomes the borrowed key
LeafBorrowLeft(self, node, pk, original_value, parent, b) ==
    IF pk.st # "Ok" THEN RemoveErr("panic", b, Some(parent))
    ELSE RemoveOk(LeafStore(LeafInsert(self, 0, Last(node.keys), Last(node.values)),
                    LeafStore([node EXCEPT !.keys = PopLast(node.keys),
                                           !.values = PopLast(node.values)], b)),
                  Some(pk.parent), Some(original_value), None)

\* LeafNode::remove, borrow from the right sibling node without
\* `parent.keys[path_info.lparent.unwrap()] = node.keys[0].clone()`
LeafBorrowRight_keepSeparator(self, node, pk, original_value, parent, b) ==
    IF pk.st # "Ok" THEN RemoveErr("panic", b, Some(parent))
    ELSE RemoveOk(LeafStore([self EXCEPT !.keys = Append(self.keys, At(node.keys, 0)),
                                         !.values = Append(self.values, At(node.values, 0))],
                    LeafStore([node EXCEPT !.keys = VecRemove(node.keys, 0),
                                           !.values = VecRemove(node.values, 0)], b)),
                  Some(parent), Some(original_value), None)

\* LeafNode::remove, borrow from the right sibling node: its first pair is
\* appended to self and the parent key at lparent becomes its new first key
LeafBorrowRight(self, node, pk, original_value, parent, b) ==
    IF pk.st # "Ok" THEN RemoveErr("panic", b, Some(parent))
    ELSE RemoveOk(LeafStore([self EXCEPT !.keys = Append(self.keys, At(node.keys, 0)),
                                         !.values = Append(self.values, At(node.values, 0))],
                    LeafStore([node EXCEPT !.keys = VecRemove(node.keys, 0),
                                           !.values = VecRemove(node.values, 0)], b)),
                  Some(pk.parent), Some(original_value), None)

\* LeafNode::remove, merge into the left sibling node: self's page is deleted
LeafMergeLeft(self, node, original_value, parent, b) ==
    RemoveOk(LeafStore([node EXCEPT !.keys = node.keys \o self.keys,
                                    !.values = node.values \o self.values,
                                    !.next = self.next],
                       delete_page(b, self.ptr)),
             Some(parent), Some(original_value), Some(self.ptr))

\* LeafNode::remove, merge the right sibling node into self: its page is deleted
LeafMergeRight(self, node, original_value, parent, b) ==
    RemoveOk(LeafStore([self EXCEPT !.keys = self.keys \o node.keys,
                                    !.values = self.values \o node.values,
                                    !.next = node.next],
                       delete_page(b, node.ptr)),
             Some(parent), Some(original_value), Some(node.ptr))

\* The underflow branch of LeafNode::remove with the sibling pages lp, rp
\* loaded: borrow from the left sibling, else from the right one, else merge
\* with the left sibling, else with the right one when it is self.next.
LeafRebalanceWith(self, original_value, parent, path_info, b, lp, rp) ==
    IF lp.st # "Ok" THEN RemoveErr(lp.st, b, Some(parent))
    ELSE IF IsSome(path_info.lsibling) /\ Len(lp.page.keys) > SplitAt
    THEN LeafBorrowLeft(self, LeafFromPage(lp.page),
                        SetParentKey(parent, path_info.rparent, Last(lp.page.keys)),
                        original_value, parent, b)
    ELSE IF rp.st # "Ok" THEN RemoveErr(rp.st, b, Some(parent))
    ELSE IF IsSome(path_info.rsibling) /\ Len(rp.page.keys) > SplitAt
    THEN LeafBorrowRight(self, LeafFromPage(rp.page),
                         SetParentKey(parent, path_info.lparent, At(rp.page.keys, 1)),
                         original_value, parent, b)
    ELSE IF IsSome(path_info.lsibling)
    THEN LeafMergeLeft(self, LeafFromPage(lp.page), original_value, parent, b)
    ELSE IF IsSome(path_info.rsibling) /\ path_info.rsibling = self.next
    THEN LeafMergeRight(self, LeafFromPage(rp.page), original_value, parent, b)
    ELSE RemoveOk(LeafStore(self, b), Some(parent), Some(original_value), None)

LeafRebalance(self, original_value, parent, path_info, b) ==
    LeafRebalanceWith(self, original_value, parent, path_info, b,
                      LoadSibling(b.file, path_info.lsibling),
                      LoadSibling(b.file, path_info.rsibling))

\* LeafNode::remove with the pair at position i taken out of self
LeafRemoved(self, original_value, parent, path_info, b) ==
    IF Len(self.keys) < SplitAt /\ IsSome(parent)
    THEN LeafRebalance(self, original_value, Unwrap(parent), path_info, b)
    ELSE RemoveOk(LeafStore(self, b), parent, Some(original_value), None)

\* LeafNode::remove taking the Err(i) of binary_search for a position too
LeafRemoveAt_absentRemoves(self, s, parent, path_info, b) ==
    IF s.i >= Len(self.keys) THEN RemoveOk(b, parent, None, None)
    ELSE LeafRemoved([self EXCEPT !.keys = VecRemove(self.keys, s.i),
                                  !.values = VecRemove(self.values, s.i)],
                     At(self.values, s.i), parent, path_info, b)

\* LeafNode::remove after binary_search gave s
LeafRemoveAt(self, s, parent, path_info, b) ==
    IF ~s.found THEN RemoveOk(b, parent, None, None)
    ELSE LeafRemoved([self EXCEPT !.keys = VecRemove(self.keys, s.i),
                                  !.values = VecRemove(self.values, s.i)],
                     At(self.values, s.i), parent, path_info, b)

\* LeafNode::remove
LeafRemove(self, key, parent, path_info, b) ==
    LeafRemoveAt(self, BinarySearch(self.keys, key), parent, path_info, b)

\* what remove_page returns: Option<PagePtr>, with the node itself and the
\* parent it holds by &mut
PageErr(st, b, self, parent) ==
    [st |-> st, b |-> b, self |-> self, parent |-> parent, deleted |-> None]
PageOk(b, self, parent, deleted) ==
    [st |-> "Ok", b |-> b, self |-> self, parent |-> parent, deleted |-> deleted]

\* InnerNode::remove_page, borrow from the left sibling node: its last key
\* and last child pointer are prepended to self, and the parent key at
\* rparent becomes that key
InnerBorrowLeft(self, node, pk, parent, b) ==
    IF Len(node.childptrs) = 0 \/ pk.st # "Ok" THEN PageErr("panic", b, self, Some(parent))
    ELSE PageOk(InnerStore([node EXCEPT !.keys = PopLast(node.keys),
                                        !.childptrs = PopLast(node.childptrs)], b),
                [self EXCEPT !.keys = VecInsert(self.keys, 0, Last(node.keys)),
                             !.childptrs = VecInsert(self.childptrs, 0, Last(node.childptrs))],
                Some(pk.parent), None)

\* InnerNode::remove_page, borrow from the right sibling node: its first key
\* and first child pointer are appended to self, and the parent key at
\* lparent becomes the sibling's new first key
InnerBorrowRight(self, node, pk, parent, b) ==
    IF Len(node.childptrs) = 0 \/ pk.st # "Ok" THEN PageErr("panic", b, self, Some(parent))
    ELSE PageOk(InnerStore([node EXCEPT !.keys = VecRemove(node.keys, 0),
                                        !.childptrs = VecRemove(node.childptrs, 0)], b),
                [self EXCEPT !.keys = Append(self.keys, At(node.keys, 0)),
                             !.childptrs = Append(self.childptrs, At(node.childptrs, 0))],
                Some(pk.parent), None)

\* InnerNode::remove_page, merge into the left sibling node with the parent
\* key sep pulled down; self's page is reported, delete_page is not called
InnerMergeLeft(self, node, sep, parent, b) ==
    IF sep.st # "Ok" THEN PageErr("panic", b, self, Some(parent))
    ELSE PageOk(InnerStore([node EXCEPT !.keys = Append(node.keys, sep.key) \o self.keys,
                                        !.childptrs = node.childptrs \o self.childptrs], b),
                self, Some(parent), Some(self.ptr))

\* InnerNode::remove_page, merge the right sibling node into self with the
\* parent key sep pulled down; the sibling's page is reported
InnerMergedRight(me, node, parent, b) ==
    PageOk(InnerStore(me, b), me, Some(parent), Some(node.ptr))

InnerMergeRight(self, node, sep, parent, b) ==
    IF sep.st # "Ok" THEN PageErr("panic", b, self, Some(parent))
    ELSE InnerMergedRight([self EXCEPT !.keys = Append(self.keys, sep.key) \o node.keys,
                                       !.childptrs = self.childptrs \o node.childptrs],
                          node, parent, b)

\* The underflow branch of InnerNode::remove_page with the sibling pages
\* lp, rp loaded
InnerRebalanceWith(self, parent, path_info, b, lp, rp) ==
    IF lp.st # "Ok" THEN PageErr(lp.st, b, self, Some(parent))
    ELSE IF IsSome(path_info.lsibling) /\ Len(lp.page.keys) > SplitAt
    THEN InnerBorrowLeft(self, InnerFromPage(lp.page),
                         SetParentKey(parent, path_info.rparent, Last(lp.page.keys)),
                         parent, b)
    ELSE IF rp.st # "Ok" THEN PageErr(rp.st, b, self, Some(parent))
    ELSE IF IsSome(path_info.rsibling) /\ Len(rp.page.keys) > SplitAt
    THEN InnerBorrowRight(self, InnerFromPage(rp.page),
                          SetParentKey(parent, path_info.lparent, At(rp.page.keys, 1)),
                          parent, b)
    ELSE IF IsSome(path_info.lsibling)
    THEN InnerMergeLeft(self, InnerFromPage(lp.page),
                        GetParentKey(parent, path_info.rparent), parent, b)
    ELSE IF IsSome(path_info.rsibling)
    THEN InnerMergeRight(self, InnerFromPage(rp.page),
                         GetParentKey(parent, path_info.lparent), parent, b)
    ELSE PageOk(b, self, Some(parent), None)

InnerRebalance(self, parent, path_info, b) ==
    InnerRebalanceWith(self, parent, path_info, b,
                       LoadSibling(b.file, path_info.lsibling),
                       LoadSibling(b.file, path_info.rsibling))

\* InnerNode::remove_page with the key and the child pointer taken out of
\* self: the root with no key left hands the root to its only child and is
\* deleted; a node with a parent rebalances below split_at keys
PageRemoved(self, parent, path_info, b) ==
    IF IsNone(parent)
    THEN IF Len(self.keys) = 0
         THEN IF Len(self.childptrs) = 0 THEN PageErr("panic", b, self, parent)
              ELSE PageOk(delete_page(set_root(b, Some(At(self.childptrs, 0))), self.ptr),
                          self, parent, Some(self.ptr))
         ELSE PageOk(b, self, parent, None)
    ELSE IF Len(self.keys) < SplitAt
         THEN InnerRebalance(self, Unwrap(parent), path_info, b)
         ELSE PageOk(b, self, parent, None)

\* InnerNode::remove_page after binary_search of the child pointers gave s;
\* i - 1 is a usize
remove_page_at(self, s, parent, path_info, b) ==
    IF ~s.found THEN PageErr("panic", b, self, parent)
    ELSE IF s.i - 1 < 0 \/ s.i - 1 >= Len(self.keys) THEN PageErr("panic", b, self, parent)
    ELSE PageRemoved([self EXCEPT !.keys = VecRemove(self.keys, s.i - 1),
                                  !.childptrs = VecRemove(self.childptrs, s.i)],
                     parent, path_info, b)

\* InnerNode::remove_page
remove_page(self, page_ptr, parent, path_info, b) ==
    remove_page_at(self, BinarySearch(self.childptrs, page_ptr), parent, path_info, b)

\* InnerNode::remove, after remove_page returned p: self is stored
InnerRemoveDone(parent, value, p) ==
    IF p.st # "Ok" THEN RemoveErr(p.st, p.b, parent)
    ELSE RemoveOk(InnerStore(p.self, p.b), p.parent, value, p.deleted)

\* InnerNode::remove, after the child returned r (r.parent is self)
InnerRemoveAfter(parent, path_info, r) ==
    IF r.st # "Ok" THEN RemoveErr(r.st, r.b, parent)
    ELSE IF IsNone(r.deleted)
    THEN RemoveOk(InnerStore(Unwrap(r.parent), r.b), parent, r.value, None)
    ELSE InnerRemoveDone(parent, r.value,
             remove_page(Unwrap(r.parent), Unwrap(r.deleted), parent, path_info, r.b))

\* InnerNode::remove and Node::remove (on a loaded child)
RECURSIVE InnerRemove(_, _, _, _, _)
NodeRemove(n, key, parent, path_info, b) ==
    IF n.leaf THEN LeafRemove(n.node, key, parent, path_info, b)
    ELSE InnerRemove(n.node, key, parent, path_info, b)

\* InnerNode::remove once the child n is loaded
InnerRemoveChild(self, key, parent, path_info, b, child_info, n) ==
    IF n.st # "Ok" THEN RemoveErr(n.st, b, parent)
    ELSE InnerRemoveAfter(parent, path_info,
                          NodeRemove(n, key, Some(self), child_info, b))

\* InnerNode::remove once the descent step child_info is known
InnerRemoveInfo(self, key, parent, path_info, b, child_info) ==
    IF child_info.st # "Ok" THEN RemoveErr("panic", b, parent)
    ELSE InnerRemoveChild(self, key, parent, path_info, b, child_info,
                          load_node(child_info.page_nr, b.file))

InnerRemove(self, key, parent, path_info, b) ==
    InnerRemoveInfo(self, key, parent, path_info, b, get_child_node_info(self, key))

\* BPTree::remove with the root node n loaded.  value is the Option<V> that
\* Node::remove hands back and BPTree::remove drops: the value the key had,
\* None when it was not found.
BPTreeRemoveAfter(r) == [st |-> r.st, b |-> r.b, value |-> r.value]

BPTreeRemoveLoaded(n, key, b) ==
    IF n.st # "Ok" THEN [st |-> n.st, b |-> b, value |-> None]
    ELSE BPTreeRemoveAfter(NodeRemove(n, key, None, None, b))

\* BPTree::remove answering Ok on a tree without a root
BPTreeRemove_okOnEmpty(b, key) ==
    IF IsNone(b.root_ptr) THEN [st |-> "Ok", b |-> b, value |-> None]
    ELSE BPTreeRemoveLoaded(load_node(Unwrap(b.root_ptr), b.file), key, b)

\* BPTree::remove
BPTreeRemove(b, key) ==
    IF IsNone(b.root_ptr) THEN [st |-> "RootPageIsNull", b |-> b, value |-> None]
    ELSE BPTreeRemoveLoaded(load_node(Unwrap(b.root_ptr), b.file), key, b)

(* ---------------- the public API as actions ---------------- *)
\* a panic unwinds out of the call: the model stops there
Alive == ret.st # "panic"

AllKeys == 1..(IF MaxKey > TestKeys THEN MaxKey ELSE TestKeys)
LongKeySet == 1..LongKeys

RECURSIVE Ascending(_, _)
Ascending(from, to) == IF from > to THEN << >> ELSE << from >> \o Ascending(from + 1, to)
RECURSIVE Descending(_, _)
Descending(from, to) == IF from < to THEN << >> ELSE << from >> \o Descending(from - 1, to)

\* test_node sets 1..=60 in ascending order; the descending order is its
\* mirror, and the third order sets the two lowest and the two highest keys
\* before the keys between them
OutsideIn == << 1, 2, TestKeys - 1, TestKeys >> \o Ascending(3, TestKeys - 2)
Plans == { Ascending(1, TestKeys), Descending(TestKeys, 1), OutsideIn }

\* test_node: bptree.set(i, i*10)
TestValue(i) == i * 10

\* BPTree::new: an empty file, no root, the fan-out given by the caller
NewTree ==
    /\ file = << >>
    /\ root_ptr = None
    /\ page_count = 0
    /\ emtpy_pages = << >>
    /\ ret = [op |-> "new", key |-> 0, st |-> "Ok", value |-> None]
    /\ written = [k \in AllKeys |-> None]
    /\ array_inner = << >>

\* BPTree::<u128, u128>::new(path, Some(n))
InitTree ==
    /\ NewTree
    /\ key_size = SizeOfU128
    /\ value_size = SizeOfU128
    /\ max_key_count \in 2..MaxFanout

Init == InitTree /\ plan = << >>

InitTest == InitTree /\ plan \in Plans

Install(b) ==
    /\ file' = b.file
    /\ root_ptr' = b.root_ptr
    /\ page_count' = b.page_count
    /\ emtpy_pages' = b.emtpy_pages
    /\ UNCHANGED << config, array_inner >>

\* a call bptree.set(k, v) that returned r, with at most cap pages afterwards
Returned_set(k, v, cap, r) ==
    /\ r.b.page_count <= cap
    /\ Install(r.b)
    /\ ret' = [op |-> "set", key |-> k, st |-> r.st, value |-> None]
    /\ written' = IF r.st = "Ok" THEN [written EXCEPT ![k] = Some(v)] ELSE written

Call_set(k, v, cap) ==
    /\ Alive
    /\ Returned_set(k, v, cap, BPTreeSet(Tree, k, v))

Set(k, v) == Call_set(k, v, MaxPages) /\ UNCHANGED plan

\* one iteration of the test's loop of sets
SetPlanned ==
    /\ plan # << >>
    /\ Call_set(Head(plan), TestValue(Head(plan)), TestPages)
    /\ plan' = Tail(plan)

\* a call bptree.get(k) that returned r
Returned_get(k, r) ==
    ret' = [op |-> "get", key |-> k, st |-> r.st,
            value |-> IF r.st = "Ok" THEN Some(r.value) ELSE None]

Get(k) ==
    /\ Alive
    /\ Returned_get(k, BPTreeGet(Tree, k))
    /\ UNCHANGED << file, root_ptr, page_count, emtpy_pages, config, array_inner, written, plan >>

\* a call bptree.remove(&k) that returned r
Returned_remove(k, r) ==
    /\ Install(r.b)
    /\ ret' = [op |-> "remove", key |-> k, st |-> r.st, value |-> r.value]
    /\ written' = IF r.st = "Ok" THEN [written EXCEPT ![k] = None] ELSE written

Remove(k) ==
    /\ Alive
    /\ Returned_remove(k, BPTreeRemove(Tree, k))
    /\ UNCHANGED plan

\* the free workload: any call with any argument
Next ==
    \/ \E k \in 1..MaxKey, v \in Values : Set(k, v)
    \/ \E k \in 1..MaxKey : Get(k)
    \/ \E k \in 1..MaxKey : Remove(k)

Spec == Init /\ [][Next]_vars

\* sets and gets only
NextSet ==
    \/ \E k \in 1..MaxKey, v \in Values : Set(k, v)
    \/ \E k \in 1..MaxKey : Get(k)

SpecSet == Init /\ [][NextSet]_vars

\* the planned workload: the test's sets in order, removes and gets of any key
NextTest ==
    \/ SetPlanned
    \/ \E k \in 1..TestKeys : Get(k)
    \/ \E k \in 1..TestKeys : Remove(k)

SpecTest == InitTest /\ [][NextTest]_vars

(* ---------------- reading the tree off the file ---------------- *)
HasPage(p) == p >= 0 /\ p < Len(file)
PageOf(p) == file[p + 1]
IsLeaf(p) == PageOf(p).ntype = LEAF_NODE_TYPE
Root == Unwrap(root_ptr)

\* the pages reachable from p through child pointers (d bounds the descent)
RECURSIVE Nodes(_, _)
Nodes(p, d) ==
    IF ~HasPage(p) \/ d = 0 \/ IsLeaf(p) THEN {p}
    ELSE {p} \cup UNION { Nodes(c, d - 1) : c \in Elems(PageOf(p).entries) }

TreeNodes == IF IsNone(root_ptr) THEN {} ELSE Nodes(Root, Len(file))
InnerNodes == { p \in TreeNodes : HasPage(p) /\ ~IsLeaf(p) }
LeafNodes == { p \in TreeNodes : HasPage(p) /\ IsLeaf(p) }

\* the keys stored in the leaves under p
RECURSIVE SubtreeKeys(_, _)
SubtreeKeys(p, d) ==
    IF ~HasPage(p) \/ d = 0 THEN {}
    ELSE IF IsLeaf(p) THEN Elems(PageOf(p).keys)
    ELSE UNION { SubtreeKeys(c, d - 1) : c \in Elems(PageOf(p).entries) }

StoredKeys == IF IsNone(root_ptr) THEN {} ELSE SubtreeKeys(Root, Len(file))

\* the leaves under p, left to right
RECURSIVE Concat(_)
Concat(ss) == IF ss = << >> THEN << >> ELSE Head(ss) \o Concat(Tail(ss))
RECURSIVE LeafSeq(_, _)
LeafSeq(p, d) ==
    IF ~HasPage(p) \/ d = 0 THEN << >>
    ELSE IF IsLeaf(p) THEN << p >>
    ELSE Concat([j \in 1..Len(PageOf(p).entries) |-> LeafSeq(PageOf(p).entries[j], d - 1)])

Leaves == IF IsNone(root_ptr) THEN << >> ELSE LeafSeq(Root, Len(file))

RECURSIVE SumLen(_)
SumLen(ps) == IF ps = << >> THEN 0 ELSE Len(PageOf(Head(ps)).keys) + SumLen(Tail(ps))
\* the number of keys stored in the tree
TotalKeys == SumLen(Leaves)

\* the depth of the leaves under p, as a set (one element when balanced)
RECURSIVE Depths(_, _)
Depths(p, d) ==
    IF ~HasPage(p) \/ d = 0 \/ IsLeaf(p) THEN {0}
    ELSE { n + 1 : n \in UNION { Depths(c, d - 1) : c \in Elems(PageOf(p).entries) } }

Height == IF IsNone(root_ptr) THEN {} ELSE Depths(Root, Len(file))

GetOk(v) == [st |-> "Ok", value |-> v]
GetErr(e) == [st |-> e]

(* ======================= the claims ======================= *)

\* C1: after any sequence of set operations, get(k) on any key k that was
\* set returns the value most recently written for k.
C1_GetReturnsLastWritten ==
    Alive =>
        \A k \in AllKeys :
            IsSome(written[k]) => BPTreeGet(Tree, k) = GetOk(Unwrap(written[k]))

\* C2: the tree behaves like a map: after any completed set and remove
\* operations get(j) returns the last value set for every key j whose latest
\* operation was a set, and KeyNotFound for every other key.
C2_BehavesLikeMap ==
    (Alive /\ IsSome(root_ptr)) =>
        \A j \in AllKeys :
            BPTreeGet(Tree, j) = IF IsSome(written[j]) THEN GetOk(Unwrap(written[j]))
                                 ELSE GetErr("KeyNotFound")

\* C3: after set(k, v1) then set(k, v2), get(k) returns v2 and the total
\* number of keys stored in the tree is unchanged by the second set.
C3_OverwriteKeepsCount ==
    [][\A k \in 1..MaxKey, v \in Values :
          (IsSome(written[k]) /\ Set(k, v) /\ ret'.st = "Ok")
              => /\ BPTreeGet(Tree, k)' = GetOk(v)
                 /\ TotalKeys' = TotalKeys]_vars

\* C4: after set(k, v) followed by a completed remove(k), get(k) returns
\* KeyNotFound.
C4_RemovedKeyNotFound ==
    [][\A k \in 1..MaxKey :
          (IsSome(written[k]) /\ Remove(k) /\ ret'.st = "Ok")
              => BPTreeGet(Tree, k)' = GetErr("KeyNotFound")]_vars

\* C5: every non-root node, leaf or inner, holds at least split_at and at
\* most max_key_count keys.
C5_NodeFill ==
    (Alive /\ IsSome(root_ptr)) =>
        \A p \in TreeNodes \ {Root} :
            /\ HasPage(p)
            /\ Len(PageOf(p).keys) >= SplitAt
            /\ Len(PageOf(p).keys) <= max_key_count

\* C6: for every inner node and key index i, the keys under children[i] are
\* strictly less than keys[i] and the keys under children[i+1] are greater
\* than or equal to keys[i].
C6_RoutingOrder ==
    Alive =>
        \A p \in InnerNodes :
            \A i \in 0..(Len(PageOf(p).keys) - 1) :
                /\ i + 1 < Len(PageOf(p).entries)
                /\ \A x \in SubtreeKeys(At(PageOf(p).entries, i), Len(file)) :
                       x < At(PageOf(p).keys, i)
                /\ \A x \in SubtreeKeys(At(PageOf(p).entries, i + 1), Len(file)) :
                       x >= At(PageOf(p).keys, i)

\* C7: in every reachable state of the file, every inner node reachable
\* from the root has exactly keys.length + 1 child pointers.
C7_ChildCount ==
    \A p \in InnerNodes : Len(PageOf(p).entries) = Len(PageOf(p).keys) + 1

\* a tree of height 3 whose inner nodes went through split, merge and
\* remove_page
C7_Witness ==
    /\ Alive
    /\ ret.op = "remove" /\ IsSome(ret.value)
    /\ Len(emtpy_pages) > 0
    /\ \E p \in InnerNodes : p # Root

C9_FreshTreeRootIsNull ==
    [][\A k \in AllKeys :
          (IsNone(root_ptr) /\ (Get(k) \/ Remove(k)))
              => /\ ret'.st = "RootPageIsNull"
                 /\ UNCHANGED << root_ptr, page_count, file, emtpy_pages >>]_vars

\* get and remove have been called on the fresh tree
C9_Witness ==
    /\ IsNone(root_ptr)
    /\ ret.op = "remove" /\ ret.st = "RootPageIsNull"

\* C10: remove(k) on a non-empty tree that does not contain k returns
\* success and leaves every page, root_ptr, page_count and the free list
\* as they were.
C10_RemoveAbsentIsNoop ==
    [][\A k \in AllKeys :
          (IsSome(root_ptr) /\ StoredKeys # {} /\ k \notin StoredKeys /\ Remove(k))
              => /\ ret'.st = "Ok"
                 /\ UNCHANGED << file, root_ptr, page_count, emtpy_pages >>]_vars

\* an absent key has been removed from a tree whose root is an inner node
C10_Witness ==
    /\ ret.op = "remove" /\ ret.st = "Ok" /\ IsNone(ret.value)
    /\ IsSome(root_ptr) /\ ~IsLeaf(Root)
    /\ ret.key \notin StoredKeys

\* C11: with no I/O failure and max_key_count >= 2, set(k, v) completes
\* successfully (no error, no panic) in every tree state reachable by
\* set/remove, also when a full inner node must split to absorb a child's
\* split key.
C11_SetSucceeds ==
    ret.op = "set" => ret.st = "Ok"

\* C12: with no I/O failure, remove(k) runs to completion (Ok or an error
\* value, never a panic) in every tree state reachable by set/remove: when a
\* merge reports a deleted page, the parent finds it among its child
\* pointers.
C12_RemoveCompletes ==
    ret.op = "remove" => ret.st # "panic"

\* C13: after any completed remove the root is never an inner node with zero
\* keys, and a tree reduced by removes to a single key has a leaf as its
\* root.
C13_RootCollapse ==
    (Alive /\ ret.op = "remove" /\ IsSome(root_ptr)) =>
        /\ HasPage(Root)
        /\ ~IsLeaf(Root) => Len(PageOf(Root).keys) > 0
        /\ TotalKeys = 1 => IsLeaf(Root)

\* the page indices in use: the root, every child pointer and every leaf
\* next pointer reachable from the root
NextPtrs == { PageOf(p).next : p \in { q \in LeafNodes : PageOf(q).has_next = 1 } }
PagesInUse == TreeNodes \cup NextPtrs
FreePages == Elems(emtpy_pages)

\* C14: after every completed operation every page index reachable from the
\* root (the root, every child pointer, every leaf next pointer) is strictly
\* less than page_count, and no page index of the free list is reachable
\* from the root.
C14_PagesInUse ==
    Alive =>
        /\ \A p \in PagesInUse : p < page_count
        /\ PagesInUse \cap FreePages = {}

\* pages have been freed by a leaf merge and by a root collapse, and the
\* tree still has inner nodes
C14_Witness ==
    /\ Alive /\ ret.op = "remove" /\ ret.st = "Ok"
    /\ \E p \in FreePages : HasPage(p) /\ ~IsLeaf(p)
    /\ \E p \in FreePages : HasPage(p) /\ IsLeaf(p)
    /\ InnerNodes # {}

\* C15: every page that stops being part of the tree is recorded in the free
\* list exactly once: after any completed operation every allocated page
\* index is either reachable from the root or in the free list.
C15_FreedPagesListed ==
    Alive =>
        /\ \A p \in 0..(page_count - 1) : p \in PagesInUse \/ p \in FreePages
        /\ Cardinality(FreePages) = Len(emtpy_pages)

\* C16: page indices are never reused: page_count never decreases, the free
\* list only grows, and a page index of the free list is never handed out
\* again or made part of the tree again.
C16_NoReuse ==
    [][/\ page_count' >= page_count
       /\ Len(emtpy_pages') >= Len(emtpy_pages)
       /\ \A i \in 1..Len(emtpy_pages) : emtpy_pages'[i] = emtpy_pages[i]
       /\ \A p \in PagesInUse' \ PagesInUse : p >= page_count /\ p < page_count'
       /\ PagesInUse' \cap FreePages = {}]_vars

\* the inner pages written so far
InnerPages == { p \in 0..(Len(file) - 1) : ~IsLeaf(p) }

\* a set has allocated the page of a new root after an earlier root had
\* collapsed into the free list: the only two inner pages of the file are
\* the freed root and the present one
C16_Witness ==
    /\ Alive /\ ret.op = "set" /\ ret.st = "Ok"
    /\ IsSome(root_ptr) /\ ~IsLeaf(Root)
    /\ Cardinality(InnerPages) = 2
    /\ \E r \in InnerPages : r \in FreePages /\ r < Root

\* the key/value pairs held by the leaf pages of the tree, as the file has them
StoredPairs ==
    UNION { { << PageOf(p).keys[i], PageOf(p).entries[i] >> :
                i \in 1..Len(PageOf(p).keys) } : p \in LeafNodes }

\* C17: write-through: when set(k, v) returns Ok, the leaf that received the
\* pair has been written to its page, so a leaf page of the tree holds k with
\* the value v, also when k was already present and its value was overwritten.
C17_WriteThrough ==
    [][\A k \in 1..MaxKey, v \in Values :
          (Set(k, v) /\ ret'.st = "Ok") => << k, v >> \in StoredPairs']_vars

(* ---------------- page.rs: the pager on its own ---------------- *)
\* the pages handed to the pager: one-key leaves with or without a next page
PagerPages ==
    { LeafPage([ptr |-> 0, keys |-> << k >>, values |-> << k >>, next |-> n]) :
        k \in 1..2, n \in {None, Some(1)} }

\* a call pager.insert_page(page_ptr, &page) that returned r
Returned_insert_page(page_ptr, r) ==
    /\ Len(r.file) <= MaxFileLen
    /\ file' = r.file
    /\ ret' = [op |-> "insert_page", key |-> page_ptr, st |-> r.st, value |-> None]

PagerInsert(page_ptr, page) ==
    /\ Returned_insert_page(page_ptr, insert_page(file, page_ptr, page))
    /\ UNCHANGED << root_ptr, page_count, emtpy_pages, config, array_inner, written, plan >>

\* a call pager.append_page(&page)
PagerAppend(page) ==
    /\ Len(file) < MaxFileLen
    /\ file' = append_page(file, page)
    /\ ret' = [op |-> "append_page", key |-> Len(file), st |-> "Ok", value |-> None]
    /\ UNCHANGED << root_ptr, page_count, emtpy_pages, config, array_inner, written, plan >>

\* a call pager.load_page(page_ptr) that returned r
Returned_load_page(page_ptr, r) ==
    ret' = [op |-> "load_page", key |-> page_ptr, st |-> r.st,
            value |-> IF r.st = "Ok" THEN Some(r.page) ELSE None]

PagerLoad(page_ptr) ==
    /\ Returned_load_page(page_ptr, load_page(file, page_ptr))
    /\ UNCHANGED << file, root_ptr, page_count, emtpy_pages, config, array_inner, written, plan >>

NextPager ==
    \/ \E page_ptr \in 0..(MaxFileLen + 1), page \in PagerPages : PagerInsert(page_ptr, page)
    \/ \E page \in PagerPages : PagerAppend(page)
    \/ \E page_ptr \in 0..(MaxFileLen + 1) : PagerLoad(page_ptr)

SpecPager == Init /\ [][NextPager]_vars

\* C18: insert_page(page_ptr, page) fails with PageNotFound and leaves the
\* file unchanged whenever page_ptr is not below the number of pages of the
\* file, the case page_ptr = number of pages included.
C18_InsertBeyondEnd ==
    [][\A page_ptr \in 0..(MaxFileLen + 1), page \in PagerPages :
          (PagerInsert(page_ptr, page) /\ page_ptr >= Len(file))
              => (ret'.st = "PageNotFound" /\ file' = file)]_vars

(* ---------------- the capacity of a leaf page ---------------- *)
\* BPTree::new(path, None) for key and value types of 1..MaxSize bytes
InitCapacity ==
    /\ NewTree
    /\ key_size \in 1..MaxSize
    /\ value_size \in 1..MaxSize
    /\ max_key_count = max_key_count_of(key_size, value_size)
    /\ plan = << >>

\* bincode::serialize of a Vec of n elements of size bytes each: the length
\* as a u64, then the elements
serialized_len(n, size) == 8 + n * size

\* LeafNode::store_node_to_page, the byte ranges it writes for a leaf of n
\* entries: where the values blob ends in the page buffer
LeafBytesEnd(n) ==
    VALUES_LEN_OFFSET + VALUES_LEN + serialized_len(n, key_size)
        + serialized_len(n, value_size)

\* the fill levels a leaf is stored at: empty, half full and full
FillLevels == {0, SplitAt, max_key_count}

\* a leaf of n entries is stored: indexing the page buffer past PAGE_SIZE
\* panics
StoreLeaf(n) ==
    /\ ret' = [op |-> "store_node_to_page", key |-> n,
               st |-> IF LeafBytesEnd(n) > PAGE_SIZE THEN "panic" ELSE "Ok",
               value |-> Some(LeafBytesEnd(n))]
    /\ UNCHANGED << file, root_ptr, page_count, emtpy_pages, config, array_inner, written, plan >>

NextCapacity == \E n \in FillLevels : StoreLeaf(n)

SpecCapacity == InitCapacity /\ [][NextCapacity]_vars

\* C19: max_key_count(k, v) is a safe capacity: a leaf of max_key_count
\* entries, encoded as the 34-byte header, the keys blob and the values blob,
\* each blob with its 8-byte length, ends within the PAGE_SIZE bytes of the
\* page.
C19_CapacityIsSafe ==
    (ret.op = "store_node_to_page" /\ ret.key = max_key_count) =>
        (Unwrap(ret.value) <= PAGE_SIZE /\ ret.st = "Ok")

(* ---------------- array.rs: ArrayKVStore ---------------- *)
\* ArrayKVStore::contains: the position of the first pair with the key
contains(s, key) ==
    IF \E i \in 1..Len(s) : s[i].key = key
    THEN Some((CHOOSE i \in 1..Len(s) :
                  s[i].key = key /\ \A j \in 1..(i - 1) : s[j].key # key) - 1)
    ELSE None

\* ArrayKVStore::get
array_get(s, key) ==
    IF IsSome(contains(s, key))
    THEN [st |-> "Ok", value |-> At(s, Unwrap(contains(s, key))).value]
    ELSE [st |-> "KeyNotFound"]

\* ArrayKVStore::set
ArraySet(k, v) ==
    /\ array_inner' =
           IF IsSome(contains(array_inner, k))
           THEN VecSet(array_inner, Unwrap(contains(array_inner, k)),
                       [key |-> k, value |-> v])
           ELSE Append(array_inner, [key |-> k, value |-> v])
    /\ ret' = [op |-> "array.set", key |-> k, st |-> "Ok", value |-> None]
    /\ UNCHANGED << file, root_ptr, page_count, emtpy_pages, config, written, plan >>

\* ArrayKVStore::get
ArrayGet(k) ==
    /\ ret' = [op |-> "array.get", key |-> k, st |-> array_get(array_inner, k).st,
               value |-> IF array_get(array_inner, k).st = "Ok"
                         THEN Some(array_get(array_inner, k).value) ELSE None]
    /\ UNCHANGED << file, root_ptr, page_count, emtpy_pages, config, array_inner, written, plan >>

\* ArrayKVStore::remove
ArrayRemove(k) ==
    /\ array_inner' =
           IF IsSome(contains(array_inner, k))
           THEN VecRemove(array_inner, Unwrap(contains(array_inner, k)))
           ELSE array_inner
    /\ ret' = [op |-> "array.remove", key |-> k,
               st |-> IF IsSome(contains(array_inner, k)) THEN "Ok" ELSE "KeyNotFound",
               value |-> None]
    /\ UNCHANGED << file, root_ptr, page_count, emtpy_pages, config, written, plan >>

NextArray ==
    \/ \E k \in 1..MaxKey, v \in Values : ArraySet(k, v)
    \/ \E k \in 1..MaxKey : ArrayGet(k)
    \/ \E k \in 1..MaxKey : ArrayRemove(k)

SpecArray == Init /\ [][NextArray]_vars

\* C20: as test_kv asserts, after set(k, v) and a successful remove(&k),
\* get(&k) returns Ok(v), the value the store held for k.
C20_GetAfterRemove ==
    [][\A k \in 1..MaxKey :
          (ArrayRemove(k) /\ ret'.st = "Ok")
              => array_get(array_inner', k) = array_get(array_inner, k)]_vars

\* the leaves whose next pointer is p, and the keys an inner node holds
\* right before its child pointer p
LeftLeavesOf(p) ==
    { q \in LeafNodes : PageOf(q).has_next = 1 /\ PageOf(q).next = p }
SeparatorsOf(p) ==
    UNION { { PageOf(n).keys[j] : j \in { i \in 1..Len(PageOf(n).keys) :
                  i + 1 <= Len(PageOf(n).entries) /\ PageOf(n).entries[i + 1] = p } } :
            n \in InnerNodes }

\* C21: when a set splits a full leaf, the split key handed to the parent is
\* the first key of the new right leaf as it is after the new item was
\* placed, and every key of the left leaf is below that first key.
C21_SplitKeyIsFirstOfRight ==
    [][\A k \in 1..MaxKey, v \in Values :
          (Set(k, v) /\ ret'.st = "Ok") =>
              \A p \in LeafNodes' \ LeafNodes :
                  /\ \A sk \in SeparatorsOf(p)' : sk = PageOf(p)'.keys[1]
                  /\ \A q \in LeftLeavesOf(p)' :
                         \A i \in 1..Len(PageOf(q)'.keys) :
                             PageOf(q)'.keys[i] < PageOf(p)'.keys[1]]_vars

\* keys strictly ascending, and the two halves of a split around the key
\* promoted between them
StrictlyAscending(ks) == \A i \in 1..(Len(ks) - 1) : ks[i] < ks[i + 1]
SplitInOrder(left, promoted, right) ==
    /\ StrictlyAscending(left.keys) /\ StrictlyAscending(right.keys)
    /\ \A i \in 1..Len(left.keys) : left.keys[i] < promoted
    /\ \A i \in 1..Len(right.keys) : promoted < right.keys[i]
    /\ Len(left.entries) = Len(left.keys) + 1
    /\ Len(right.entries) = Len(right.keys) + 1

\* what the claim asks of the result r of the root inner node's set
RootSplitInOrder(r) ==
    /\ r.st # "panic"
    /\ (r.st = "Ok" /\ IsSome(r.ret)) =>
           SplitInOrder(r.b.file[Root + 1], Unwrap(r.ret)[1],
                        r.b.file[Unwrap(r.ret)[2] + 1])

\* C22: when a full inner node splits while absorbing the pair a child
\* returned, the pair is placed at a valid position for every ordered
\* position i (the call does not panic) and left.keys < promoted key <
\* right.keys, all ascending.  Stated of the next set of the workload on a
\* tree whose root is a full inner node.
C22_InnerSplitPlacesPair ==
    (Alive /\ plan # << >> /\ IsSome(root_ptr) /\ HasPage(Root) /\ ~IsLeaf(Root)
        /\ Len(PageOf(Root).keys) >= max_key_count) =>
        RootSplitInOrder(InnerSet(InnerFromPage(PageOf(Root)), Head(plan),
                                  TestValue(Head(plan)), Tree))

\* the key/value pairs of the leaves ps, in order
RECURSIVE PairsOf(_)
PairsOf(ps) ==
    IF ps = << >> THEN << >>
    ELSE [i \in 1..Len(PageOf(Head(ps)).keys) |->
             << PageOf(Head(ps)).keys[i], PageOf(Head(ps)).entries[i] >>]
         \o PairsOf(Tail(ps))
\* the pairs stored in the tree, leaf after leaf from left to right
LeafEntries == PairsOf(Leaves)

\* C23: a remove in which a leaf borrows one pair from a sibling (two leaves
\* change and none is merged away) leaves the lending sibling with at least
\* split_at keys, loses and duplicates no pair (the pairs read along the
\* leaves are the earlier ones without the removed pair), and makes the
\* parent separator of the right-hand leaf of the two equal to its first key.
C23_LeafBorrow ==
    [][(/\ ret'.op = "remove" /\ ret'.st = "Ok"
           /\ LeafNodes' = LeafNodes
           /\ Cardinality({ p \in LeafNodes : file'[p + 1] # file[p + 1] }) = 2)
          => /\ \A q \in LeafNodes :
                    Len(file'[q + 1].keys) < Len(file[q + 1].keys)
                        => Len(file'[q + 1].keys) >= SplitAt
             /\ \E i \in 1..Len(LeafEntries) :
                    /\ LeafEntries[i][1] = ret'.key
                    /\ LeafEntries' = VecRemove(LeafEntries, i - 1)
             /\ \A l, r \in { p \in LeafNodes : file'[p + 1] # file[p + 1] } :
                    (file'[l + 1].has_next = 1 /\ file'[l + 1].next = r)
                        => /\ SeparatorsOf(r)' # {}
                           /\ \A sk \in SeparatorsOf(r)' : sk = file'[r + 1].keys[1]]_vars

\* the planned sets 1..5 in ascending order with max_key_count 3 gave the
\* leaves [1, 2] and [3, 4, 5]; the remove of 1 that has just returned its
\* value made the left leaf borrow 3 from the right one
C23_Witness ==
    /\ ret = [op |-> "remove", key |-> 1, st |-> "Ok", value |-> Some(TestValue(1))]
    /\ max_key_count = 3 /\ plan = << 6 >>
    /\ \A k \in 2..5 : IsSome(written[k])
    /\ LeafEntries = [i \in 1..4 |-> << i + 1, TestValue(i + 1) >>]
    /\ Len(Leaves) = 2
    /\ PageOf(Leaves[1]).keys = << 2, 3 >>
    /\ PageOf(Root).keys = << 4 >>

\* C24: a remove in which an inner node borrows from a sibling inner node (a
\* child pointer leaves a node that stays in the tree and is still part of
\* the tree afterwards) keeps every other key readable: each key that get
\* returned before the remove is returned with the same value after it.
C24_InnerBorrowKeepsKeys ==
    [][(/\ ret'.op = "remove" /\ ret'.st = "Ok"
        /\ \E q \in InnerNodes \cap InnerNodes' :
               \E c \in Elems(file[q + 1].entries) :
                   c \notin Elems(file'[q + 1].entries) /\ c \in TreeNodes')
          => \A j \in AllKeys \ {ret'.key} :
                 BPTreeGet(Tree, j).st = "Ok" => BPTreeGet(Tree, j)' = BPTreeGet(Tree, j)]_vars

(* ---------------- the long workload: sets, then removes ---------------- *)
\* test_node with more keys than SpecTest has: BPTree::new(path, Some(n))
\* for an odd n, the loop of sets in ascending order, then removes
InitLong ==
    /\ file = << >>
    /\ root_ptr = None
    /\ page_count = 0
    /\ emtpy_pages = << >>
    /\ ret = [op |-> "new", key |-> 0, st |-> "Ok", value |-> None]
    /\ written = [k \in LongKeySet |-> None]
    /\ array_inner = << >>
    /\ key_size = SizeOfU128
    /\ value_size = SizeOfU128
    /\ max_key_count = OddFanout
    /\ plan = Ascending(1, LongKeys)

\* one iteration of the loop of sets
SetLong ==
    /\ plan # << >>
    /\ Call_set(Head(plan), TestValue(Head(plan)), LongPages)
    /\ plan' = Tail(plan)

\* one iteration of the loop of removes, after the sets
RemoveLong(k) ==
    /\ plan = << >>
    /\ Cardinality({ j \in LongKeySet : IsNone(written[j]) }) < MaxRemoves
    /\ Remove(k)

NextLong ==
    \/ SetLong
    \/ \E k \in LongKeySet : RemoveLong(k)

SpecLong == InitLong /\ [][NextLong]_vars

\* C25: a remove in which an inner node leaves the tree (an inner-node merge,
\* with the parent separator pulled down into the merged node) leaves no
\* inner node with more than max_key_count keys.
C25_MergeFits ==
    [][(ret'.op = "remove" /\ ret'.st = "Ok" /\ InnerNodes' # InnerNodes)
          => \A p \in InnerNodes' : Len(file'[p + 1].keys) <= max_key_count]_vars

\* C26: after every completed set or remove the file holds exactly
\* page_count pages, and the page at every index p holds the node stored
\* with ptr p, so that load_node(p) returns that node.
C26_CounterInSync ==
    (Alive /\ ret.op \in {"set", "remove"}) =>
        /\ Len(file) = page_count
        /\ \A p \in 0..(page_count - 1) :
               /\ load_node(p, file).st = "Ok"
               /\ load_node(p, file).node.ptr = p

\* sets have split leaves and the root, and a remove has freed a page
C26_Witness ==
    /\ Alive /\ ret.op = "remove" /\ ret.st = "Ok"
    /\ page_count >= 5 /\ Len(file) >= 5
    /\ Len(emtpy_pages) > 0

\* C27: the tree stays balanced: after every completed operation all leaves
\* under the root are at the same depth, so the children of an inner node
\* (the siblings a node loads when it rebalances) are all leaves or all
\* inner nodes.
C27_Balanced ==
    Alive =>
        /\ Cardinality(Height) <= 1
        /\ \A p \in InnerNodes :
               \A c, d \in Elems(PageOf(p).entries) :
                   HasPage(c) /\ HasPage(d) /\ IsLeaf(c) = IsLeaf(d)

\* a tree with inner nodes, uniform, after a remove that has taken an inner
\* page out of the tree (a merge of inner nodes, then the root collapse)
C27_Witness ==
    /\ Alive /\ ret.op = "remove" /\ ret.st = "Ok"
    /\ \E h \in Height : h >= 1
    /\ Cardinality(Height) = 1
    /\ \E p \in 0..(Len(file) - 1) : ~IsLeaf(p) /\ p \notin TreeNodes

\* every key the caller has set has since been removed by a remove that
\* returned Ok
AllRemoved ==
    /\ Alive /\ IsSome(root_ptr) /\ ret.op = "remove"
    /\ \A k \in AllKeys : IsNone(written[k])

\* the root is a leaf without keys; a get of any key answers KeyNotFound and
\* a remove of any key answers Ok
EmptyLeafRoot ==
    /\ HasPage(Root) /\ IsLeaf(Root) /\ PageOf(Root).keys = << >>
    /\ \A k \in AllKeys :
           /\ BPTreeGet(Tree, k).st = "KeyNotFound"
           /\ BPTreeRemove(Tree, k).st = "Ok"

\* C28: once a set has completed root_ptr is never absent again; after every
\* key has been removed the root is an empty leaf, get(k) answers KeyNotFound
\* (not RootPageIsNull) and remove(k) answers Ok for every key k.
C28_RootNeverAbsent ==
    [][/\ IsSome(root_ptr) => IsSome(root_ptr')
       /\ (ret'.op = "set" /\ ret'.st = "Ok") => IsSome(root_ptr')
       /\ AllRemoved' => EmptyLeafRoot']_vars

\* the pointer get_child_node_info records as rsibling of a leaf, the next
\* entry of its parent, is the leaf's own next pointer
RightSiblingIsNext ==
    \A n \in InnerNodes :
        \A i \in 1..(Len(PageOf(n).entries) - 1) :
            (HasPage(PageOf(n).entries[i]) /\ IsLeaf(PageOf(n).entries[i])) =>
                /\ PageOf(PageOf(n).entries[i]).has_next = 1
                /\ PageOf(PageOf(n).entries[i]).next = PageOf(n).entries[i + 1]

\* leaf l, not the root, lost a key in this step, is left below split_at and
\* was neither refilled nor merged away
LeftUnderfull(l) ==
    /\ l \in LeafNodes /\ l \in LeafNodes' /\ Some(l) # root_ptr'
    /\ Len(PageOf(l).keys') < Len(PageOf(l).keys)
    /\ Len(PageOf(l).keys') < SplitAt

\* C29: a non-root leaf that underflows on remove is always rebalanced: the
\* right sibling recorded during the descent is the leaf's own next pointer,
\* so the guarded right merge is performed and no non-root leaf is left below
\* split_at by a remove.
C29_UnderflowRebalanced ==
    [][(ret'.op = "remove" /\ ret'.st = "Ok") =>
           /\ RightSiblingIsNext'
           /\ \A l \in LeafNodes : ~LeftUnderfull(l)]_vars
====
